---- MODULE Spec2Model ----
(***************************************************************************)
(* Model of mnotify's local socket service (src/client/sync.rs):           *)
(*   Client::socket            creates the watch channel, spawns the       *)
(*                             acceptor and runs the sync driver           *)
(*   Client::handle_stream     the sync driver, sole sender of the channel *)
(*   Client::handle_connections the acceptor, one task per connection      *)
(*   Client::handle_client     the per-connection task (read and write)    *)
(*   Client::socket_command    splits one read into lines, decodes and     *)
(*                             spawns one task per decoded command         *)
(*   Client::cache_encrypted_file the media cache task spawned for an      *)
(*                             encrypted message of a room's timeline      *)
(* The channel is tokio::sync::watch: one value, a version counter, and a  *)
(* last-seen version in every receiver.                                    *)
(***************************************************************************)
EXTENDS Integers, Sequences, FiniteSets, TLC

\* ------------------------------------------------------------------ bounds
MaxConns == 2       \* connections accepted in a behaviour
MaxPublishes == 3   \* sends by the driver (the channel's version) in a behaviour
MaxReads == 2       \* reads that return bytes in a behaviour
MaxEvents == 2      \* events of the timeline the closure of filter_map walks

Conns == 1..MaxConns

\* ------------------------------------------------- the serialized snapshot
\* The room lists get_all_rooms can produce in a cycle (outputs of the loop
\* at lines 227-303), as lists of room ids.
RoomLists == {<<>>, <<"!a:x", "!b:x">>}

RECURSIVE SerializeRooms(_)
SerializeRooms(output) ==
    IF output = <<>> THEN <<>>
    ELSE IF Len(output) = 1 THEN <<Head(output)>>
    ELSE <<Head(output), ",">> \o SerializeRooms(Tail(output))

\* serde_json::to_vec(&output): a JSON array, brackets included.
\* (variant: the elements without the brackets)
SerializeBare(output) == SerializeRooms(output)
Serialize(output) == <<"[">> \o SerializeRooms(output) \o <<"]">>

\* --------------------------------------------------- tokio::sync::watch
\* watch::channel(vec![]): the initial value and the initial version.
InitialVersion == 0
Channel(init) == [value |-> init, version |-> InitialVersion]

\* Receiver::clone copies the last-seen version of the receiver cloned.
\* (variant: a new receiver that counts the current value as seen, as
\* Sender::subscribe does; a new receiver that counts no value as seen)
CloneSeenCurrent(rver, ch) == ch.version
CloneSeenNothing(rver, ch) == InitialVersion - 1
Clone(rver, ch) == rver

\* Receiver::has_changed: Err once the sender is dropped, else whether the
\* channel's version differs from the receiver's last-seen version.
\* (variants: a comparison against the next version only; no comparison)
HasChangedNextOnly(rver, ch, senderDropped) ==
    IF senderDropped THEN "err"
    ELSE IF ch.version = rver + 1 THEN "true" ELSE "false"
HasChangedAlways(rver, ch, senderDropped) ==
    IF senderDropped THEN "err" ELSE "true"
HasChanged(rver, ch, senderDropped) ==
    IF senderDropped THEN "err"
    ELSE IF ch.version # rver THEN "true" ELSE "false"

\* Receiver::borrow_and_update: the value and the version, read together;
\* the version becomes the receiver's last-seen version.
\* (variant: Receiver::borrow, which leaves the last-seen version alone)
BorrowNoUpdate(rver, ch) == [value |-> ch.value, version |-> rver]
BorrowAndUpdate(rver, ch) == [value |-> ch.value, version |-> ch.version]

\* Sender::send: fails, leaving the channel as it is, when no receiver is
\* alive; otherwise replaces the value and advances the version.
SendOk(ch, nReceivers) == nReceivers > 0
Send(ch, v) == [value |-> v, version |-> ch.version + 1]

\* ------------------------------------------------------ socket_command
\* The bytes of a read, in pieces: S1 and S2 are the two halves of the line
\* {"Subscribe":{"room_id":"!a:x"}}, X is a line no SocketCommand decodes
\* from, such as {"type":"bogus"}, M is the bytes of a Send command, and NL
\* is b'\n'.
NL == "\n"
Reads ==
    { <<"X", NL, "S1", "S2", NL>>,
      <<"S1", "S2", NL, "X", NL>>,
      <<"S1", "S2", NL>>,
      <<"S1", "S2">>,
      <<"S1">>,
      <<"S2", NL>>,
      <<"M">> }

\* data.split(|b| b.eq(&b'\n')), line 131: the pieces between newlines; a
\* trailing newline leaves a last, empty piece.
RECURSIVE SplitFrom(_, _)
SplitFrom(data, piece) ==
    IF data = <<>> THEN <<piece>>
    ELSE IF Head(data) = NL THEN <<piece>> \o SplitFrom(Tail(data), <<>>)
    ELSE SplitFrom(Tail(data), Append(piece, Head(data)))
Split(data) == SplitFrom(data, <<>>)

\* serde_json::from_slice::<SocketCommand>(&data), line 137.
Decode(line) ==
    IF line = <<"S1", "S2">>
    THEN [ok |-> TRUE, cmd |-> "Subscribe"]
    ELSE IF line = <<"M">>
    THEN [ok |-> TRUE, cmd |-> "Send"]
    ELSE [ok |-> FALSE, cmd |-> "none"]

\* The loop of lines 132-141 over the pieces: the ? of line 137 returns at
\* the first piece that does not decode; each decoded command is spawned.
RECURSIVE SocketCommandLoop(_)
SocketCommandLoop(pieces) ==
    IF pieces = <<>> THEN [spawned |-> <<>>, res |-> "ok"]
    ELSE LET d == Decode(Head(pieces)) IN
         IF ~d.ok THEN [spawned |-> <<>>, res |-> "err"]
         ELSE LET rest == SocketCommandLoop(Tail(pieces)) IN
              [spawned |-> <<d.cmd>> \o rest.spawned, res |-> rest.res]
SocketCommand(data) == SocketCommandLoop(Split(data))

\* How socket_command_matcher can end, lines 104-128: Send (and File) await
\* a backend call and return its error with ?; Subscribe awaits nothing and
\* returns Ok.
Outcomes(cmd) == IF cmd = "Send" THEN {"ok", "err"} ELSE {"ok"}

\* tokio::spawn, lines 138-140: one detached task per command.
Running(cmds) == [i \in 1..Len(cmds) |-> "running"]

\* --------------------------------------------------------- the timeline
\* The positions of a room's timeline_queue, line 240.
Timeline == 1..MaxEvents

\* The media ids of the mxc urls, line 52.
ContentIds == {"a", "b"}

\* What cache_encrypted_file can be given, lines 44-52: a content without
\* "file", one whose "file" is no EncryptedFile, one whose url is no valid
\* mxc uri, and one whose url has the media id.
Contents == {"nofile", "badfile", "badurl"} \cup ContentIds

\* The timeline events the closure tells apart, lines 242-270: the event
\* does not deserialize, is no room message, is a redacted room message, or
\* is an original room message, encrypted or not, whose content
\* serde_json::to_value can or cannot serialize.
TimelineEvents ==
    {[kind |-> k, encrypted |-> FALSE, ser_ok |-> TRUE, content |-> "nofile"] :
        k \in {"undecodable", "other", "redacted", "message"}}
    \cup {[kind |-> "message", encrypted |-> TRUE, ser_ok |-> FALSE, content |-> "nofile"]}
    \cup {[kind |-> "message", encrypted |-> TRUE, ser_ok |-> TRUE, content |-> c] :
        c \in Contents}

\* The closure of filter_map, lines 242-275: keep says Some(ev.clone()) is
\* returned, spawn that a cache_encrypted_file task is spawned.
FilterMap(ev) ==
    IF ev.kind # "message" THEN [keep |-> FALSE, spawn |-> FALSE]
    ELSE IF ~ev.encrypted THEN [keep |-> TRUE, spawn |-> FALSE]
    ELSE IF ev.ser_ok THEN [keep |-> TRUE, spawn |-> TRUE]
    ELSE [keep |-> FALSE, spawn |-> FALSE]

\* The decrypted plaintext buf of lines 68-72, as the pieces write_all may
\* hand to the file in successive write calls, each at its own offset.
Chunks == {1, 2}

\* The file /tmp/<id>, line 53: whether it exists and the chunks it holds.
Absent == [exists |-> FALSE, chunks |-> {}]
Whole == [exists |-> TRUE, chunks |-> Chunks]

\* File::create, line 71: the file exists and is empty, whatever it held.
Truncated == [exists |-> TRUE, chunks |-> {}]

\* One write call of write_all, line 72, on a file holding the chunks f:
\* chunk n is put at its offset, the rest of the file is left alone.
\* (variant: a write that truncates the file before it writes)
WriteChunkTruncating(f, n) == [f EXCEPT !.chunks = {n}]
WriteChunk(f, n) == [f EXCEPT !.chunks = @ \cup {n}]

\* path.is_file(), line 54.
\* (variant: no look at the cache)
IsFileNever(f) == FALSE
IsFile(f) == f.exists

\* -------------------------------------------------------------- the state
VARIABLES
    proc,       \* "up" | "exited": the process (main returns once socket() does)
    chan,       \* the watch channel's shared state: [value, version]
    driver,     \* handle_stream: "sync" | "returned" (Err) | "panicked"
    json,       \* handle_stream's local json: the last serialization sent
    new_json,   \* handle_stream's local new_json of the latest cycle
    result,     \* how the latest cycle ended
    acceptor,   \* handle_connections: "start" | "listening" | "returned" | "panicked" | "killed"
    pc,         \* per connection: where its task is in handle_client's loop
    ver,        \* per connection: its receiver's last-seen version
    buf,        \* per connection: the local json being written (line 184-190)
    wver,       \* per connection: channel version of the last value it took to write
    last,       \* per connection: the last line write_all wrote to the client
    firstPoll,  \* per connection: the has_changed that reported changed was its first
    polledAt,   \* per connection: channel version when this iteration's has_changed ran
    endedAt,    \* per connection: channel version when its task ended
    spawned,    \* per connection: the commands socket_command spawned a task for
    cmdState,   \* per connection: the state of each spawned command's task
    splitLine,  \* the command line a client sends in two reads: [conn, half]
    reads,      \* number of reads that returned data so far
    processed,  \* number of timeline events the filter_map closure has seen
    events,     \* positions of the timeline events kept for the snapshot
    fpc,        \* per timeline position: where its cache_encrypted_file task is
    fcontent,   \* per timeline position: the content its task was given
    seen,       \* per timeline position: the file as its cache hit found it (else Absent)
    file        \* per content id: the file /tmp/<id>

vars == <<proc, chan, driver, json, new_json, result, acceptor,
          pc, ver, buf, wver, last, firstPoll, polledAt, endedAt,
          spawned, cmdState, splitLine, reads,
          processed, events, fpc, fcontent, seen, file>>

readVars == <<spawned, cmdState, splitLine, reads>>
mediaVars == <<processed, events, fpc, fcontent, seen, file>>

driverVars == <<chan, driver, json, new_json, result>>
connVars == <<pc, ver, buf, wver, last, firstPoll, polledAt, endedAt>>

NoLine == <<>>

\* The bytes a connection's reads deliver in turn, lines 160-167: half 1
\* when the latest read of conn was S1 alone, the first half of a command
\* line, half 2 when its next read was S2 and the newline, the rest of it.
NoSplit == [conn |-> 0, half |-> 0]
SplitLine(split, c, data) ==
    IF data = <<"S1">> THEN [conn |-> c, half |-> 1]
    ELSE IF split = [conn |-> c, half |-> 1] /\ data = <<"S2", NL>>
    THEN [conn |-> c, half |-> 2]
    ELSE IF split.conn = c THEN NoSplit
    ELSE split

\* Client::socket, lines 316-321: the channel holds the empty vector, the
\* acceptor task is spawned, the driver starts with json = vec![].
Init ==
    /\ proc = "up"
    /\ chan = Channel(<<>>)
    /\ driver = "sync"
    /\ json = <<>>
    /\ new_json = <<>>
    /\ result = "none"
    /\ acceptor = "start"
    /\ pc = [c \in Conns |-> "free"]
    /\ ver = [c \in Conns |-> InitialVersion]
    /\ buf = [c \in Conns |-> <<>>]
    /\ wver = [c \in Conns |-> -1]
    /\ last = [c \in Conns |-> NoLine]
    /\ firstPoll = [c \in Conns |-> FALSE]
    /\ polledAt = [c \in Conns |-> -1]
    /\ endedAt = [c \in Conns |-> -1]
    /\ spawned = [c \in Conns |-> <<>>]
    /\ cmdState = [c \in Conns |-> <<>>]
    /\ splitLine = NoSplit
    /\ reads = 0
    /\ processed = 0
    /\ events = <<>>
    /\ fpc = [k \in Timeline |-> "none"]
    /\ fcontent = [k \in Timeline |-> "none"]
    /\ seen = [k \in Timeline |-> Absent]
    /\ file = [id \in ContentIds |-> Absent]

\* A connection's task holds its receiver from accept until the task ends.
Live(c) == pc[c] \in {"accepted", "ready", "changed", "writing"}

\* The task is at the top of its loop, lines 152-156; "accepted" until its
\* first has_changed call.
\* (variant: a task that goes on after its read returned zero bytes)
AtLoopTopOrClosed(c) == pc[c] \in {"accepted", "ready", "closed"}
AtLoopTop(c) == pc[c] \in {"accepted", "ready"}

\* The receivers alive: the acceptor's r (a parameter of handle_connections,
\* dropped when it returns or panics) and one clone per running connection.
\* (variant: the acceptor's own receiver not counted)
ReceiverCountConnsOnly == Cardinality({c \in Conns : Live(c)})
ReceiverCount ==
    (IF acceptor \in {"start", "listening"} THEN 1 ELSE 0)
    + Cardinality({c \in Conns : Live(c)})

\* The sender s lives in handle_stream's frame.
SenderDropped == driver # "sync"

\* ------------------------------------------------------- handle_stream
\* new_json != json, line 307.
\* (variant: a driver that sends every cycle)
AlwaysDiffers(a, b) == TRUE
Differs(a, b) == a # b

\* One sync cycle, lines 226-311, for the room list `output` the cycle
\* builds; membersErr: r.members(..).await? fails for some room (line 280)
\* and the ? returns the error from handle_stream.
SyncCycle(output, membersErr) ==
    /\ proc = "up"
    /\ driver = "sync"
    /\ chan.version < MaxPublishes
    /\ IF membersErr
       THEN /\ driver' = "returned"
            /\ result' = "members_err"
            /\ UNCHANGED <<chan, json, new_json>>
       ELSE /\ new_json' = Serialize(output)
            /\ IF Differs(Serialize(output), json)
               THEN /\ json' = Serialize(output)
                    /\ IF SendOk(chan, ReceiverCount)
                       THEN /\ chan' = Send(chan, Serialize(output))
                            /\ result' = "sent"
                            /\ driver' = "sync"
                       ELSE \* s.send(..).unwrap() panics, line 309
                            /\ chan' = chan
                            /\ result' = "send_err"
                            /\ driver' = "panicked"
               ELSE /\ result' = "same"
                    /\ UNCHANGED <<chan, json, driver>>
    /\ UNCHANGED <<mediaVars, readVars, proc, acceptor, connVars>>

\* Lines 226, 312 and 219: sync_stream.next() yields None or Some(Err(_)):
\* the while let ends, "Sync stream ended" is printed, and the outer loop
\* calls ss.sync() for a new stream. json, declared at line 218 outside the
\* loop, is kept.
StreamEnds ==
    /\ proc = "up"
    /\ driver = "sync"
    /\ result' = "stream_ended"
    /\ driver' = "sync"
    /\ UNCHANGED <<mediaVars, readVars, proc, chan, json, new_json, acceptor, connVars>>

\* main.rs 326/361: client.socket().await? returns (or unwinds) and main
\* ends: the process exits and every task still running goes with it.
ProcessExit ==
    /\ proc = "up"
    /\ driver \in {"returned", "panicked"}
    /\ proc' = "exited"
    /\ acceptor' = IF acceptor \in {"start", "listening"} THEN "killed" ELSE acceptor
    /\ pc' = [c \in Conns |-> IF Live(c) THEN "killed" ELSE pc[c]]
    /\ ver' = [c \in Conns |-> InitialVersion]
    /\ buf' = [c \in Conns |-> <<>>]
    /\ wver' = [c \in Conns |-> -1]
    /\ last' = [c \in Conns |-> NoLine]
    /\ firstPoll' = [c \in Conns |-> FALSE]
    /\ polledAt' = [c \in Conns |-> -1]
    /\ UNCHANGED <<mediaVars, readVars, driverVars, endedAt>>

\* -------------------------------------------------- handle_connections
\* Lines 201-206: the socket path exists and cannot be removed: return Ok.
AcceptorRemoveFails ==
    /\ proc = "up" /\ acceptor = "start"
    /\ acceptor' = "returned"
    /\ UNCHANGED <<mediaVars, readVars, proc, driverVars, connVars>>

\* Line 206: UnixListener::bind(path).unwrap() panics.
AcceptorBindFails ==
    /\ proc = "up" /\ acceptor = "start"
    /\ acceptor' = "panicked"
    /\ UNCHANGED <<mediaVars, readVars, proc, driverVars, connVars>>

AcceptorBinds ==
    /\ proc = "up" /\ acceptor = "start"
    /\ acceptor' = "listening"
    /\ UNCHANGED <<mediaVars, readVars, proc, driverVars, connVars>>

\* Lines 208-211: accept, then handle_client(r.clone(), s) spawns the task.
\* The acceptor's own r never observes a value, so it keeps InitialVersion.
Accept(c) ==
    /\ proc = "up" /\ acceptor = "listening"
    /\ pc[c] = "free"
    /\ \A d \in Conns : d < c => pc[d] # "free"
    /\ pc' = [pc EXCEPT ![c] = "accepted"]
    /\ ver' = [ver EXCEPT ![c] = Clone(InitialVersion, chan)]
    /\ UNCHANGED <<mediaVars, readVars, proc, driverVars, acceptor, buf, wver, last, firstPoll, polledAt, endedAt>>

\* Line 212: a failed accept is ignored.
AcceptErr ==
    /\ proc = "up" /\ acceptor = "listening"
    /\ UNCHANGED vars

\* ------------------------------------------------------- handle_client
\* The task ends: its locals (the receiver r, json) are dropped with it, and
\* what is recorded about the connection is kept no longer.
End(c, how) ==
    /\ pc' = [pc EXCEPT ![c] = how]
    /\ endedAt' = [endedAt EXCEPT ![c] = chan.version]
    /\ ver' = [ver EXCEPT ![c] = InitialVersion]
    /\ buf' = [buf EXCEPT ![c] = <<>>]
    /\ wver' = [wver EXCEPT ![c] = -1]
    /\ last' = [last EXCEPT ![c] = NoLine]
    /\ firstPoll' = [firstPoll EXCEPT ![c] = FALSE]
    /\ polledAt' = [polledAt EXCEPT ![c] = -1]

\* Lines 153-156: s.ready(..).await.unwrap() panics the task.
ReadyPanics(c) ==
    /\ proc = "up" /\ AtLoopTop(c)
    /\ End(c, "panicked")
    /\ UNCHANGED <<mediaVars, readVars, proc, driverVars, acceptor>>

\* Lines 161-165, 171: a read of zero bytes or a read error ends the task.
ReadEnds(c) ==
    /\ proc = "up" /\ AtLoopTop(c)
    /\ End(c, "closed")
    /\ UNCHANGED <<mediaVars, readVars, proc, driverVars, acceptor>>

\* Lines 161-167: try_read returns n > 0 bytes; socket_command's result is
\* dropped and the loop goes on.
\* (variant: the unfinished line of the read before is put in front)
ReadDataBuffered(c, data) ==
    /\ proc = "up" /\ AtLoopTop(c)
    /\ reads < MaxReads
    /\ reads' = reads + 1
    /\ splitLine' = SplitLine(splitLine, c, data)
    /\ LET all == (IF splitLine = [conn |-> c, half |-> 1] THEN <<"S1">> ELSE <<>>) \o data IN
       /\ spawned' = [spawned EXCEPT ![c] = @ \o SocketCommand(all).spawned]
       /\ cmdState' = [cmdState EXCEPT ![c] = @ \o Running(SocketCommand(all).spawned)]
    /\ UNCHANGED <<mediaVars, proc, driverVars, acceptor, connVars>>
ReadData(c, data) ==
    /\ proc = "up" /\ AtLoopTop(c)
    /\ reads < MaxReads
    /\ reads' = reads + 1
    /\ splitLine' = SplitLine(splitLine, c, data)
    /\ spawned' = [spawned EXCEPT ![c] = @ \o SocketCommand(data).spawned]
    /\ cmdState' = [cmdState EXCEPT ![c] = @ \o Running(SocketCommand(data).spawned)]
    /\ UNCHANGED <<mediaVars, proc, driverVars, acceptor, connVars>>

\* Lines 138-140: the task of the i-th command spawned for connection c
\* ends: socket_command_matcher returned, its result is dropped.
\* (variant: a failed command is spawned again)
CommandEndsRetried(c, i, outcome) ==
    /\ proc = "up"
    /\ i \in DOMAIN cmdState[c] /\ cmdState[c][i] = "running"
    /\ outcome \in Outcomes(spawned[c][i])
    /\ IF outcome = "err"
       THEN /\ spawned' = [spawned EXCEPT ![c] = Append(@, spawned[c][i])]
            /\ cmdState' = [cmdState EXCEPT ![c] = Append([@ EXCEPT ![i] = outcome], "running")]
       ELSE /\ cmdState' = [cmdState EXCEPT ![c][i] = outcome]
            /\ UNCHANGED spawned
    /\ UNCHANGED <<mediaVars, splitLine, reads, proc, driverVars, acceptor, connVars>>
CommandEnds(c, i, outcome) ==
    /\ proc = "up"
    /\ i \in DOMAIN cmdState[c] /\ cmdState[c][i] = "running"
    /\ outcome \in Outcomes(spawned[c][i])
    /\ cmdState' = [cmdState EXCEPT ![c][i] = outcome]
    /\ UNCHANGED <<mediaVars, spawned, splitLine, reads, proc, driverVars, acceptor, connVars>>

\* Lines 168-170: WouldBlock: continue, back to ready.
ReadWouldBlock(c) ==
    /\ proc = "up" /\ AtLoopTop(c)
    /\ UNCHANGED vars

\* Lines 174-182: the socket is writable; has_changed.
Poll(c) ==
    /\ proc = "up" /\ AtLoopTop(c)
    /\ LET changed == HasChanged(ver[c], chan, SenderDropped) IN
       IF changed = "err"
       THEN End(c, "closed")
       ELSE \* unchanged: sleep 100 ms and continue (lines 179-182)
            /\ pc' = [pc EXCEPT ![c] = IF changed = "true" THEN "changed" ELSE "ready"]
            /\ firstPoll' = [firstPoll EXCEPT ![c] = changed = "true" /\ pc[c] = "accepted"]
            /\ polledAt' = [polledAt EXCEPT ![c] = IF changed = "true" THEN chan.version ELSE -1]
            /\ UNCHANGED <<endedAt, ver, buf, wver, last>>
    /\ UNCHANGED <<mediaVars, readVars, proc, driverVars, acceptor>>

\* Lines 184-185: borrow_and_update().clone(), then push(b'\n').
Borrow(c) ==
    /\ proc = "up" /\ pc[c] = "changed"
    /\ LET got == BorrowAndUpdate(ver[c], chan) IN
       /\ buf' = [buf EXCEPT ![c] = Append(got.value, NL)]
       /\ ver' = [ver EXCEPT ![c] = got.version]
    /\ wver' = [wver EXCEPT ![c] = chan.version]
    /\ firstPoll' = [firstPoll EXCEPT ![c] = FALSE]
    /\ pc' = [pc EXCEPT ![c] = "writing"]
    /\ UNCHANGED <<mediaVars, readVars, proc, driverVars, acceptor, last, polledAt, endedAt>>

\* Line 190: write_all completes.
WriteOk(c) ==
    /\ proc = "up" /\ pc[c] = "writing"
    /\ last' = [last EXCEPT ![c] = buf[c]]
    /\ buf' = [buf EXCEPT ![c] = <<>>]
    /\ polledAt' = [polledAt EXCEPT ![c] = -1]
    /\ pc' = [pc EXCEPT ![c] = "ready"]
    /\ UNCHANGED <<mediaVars, readVars, proc, driverVars, acceptor, ver, wver, firstPoll, endedAt>>

\* Lines 190-193: write_all fails: continue.
WriteErr(c) ==
    /\ proc = "up" /\ pc[c] = "writing"
    /\ buf' = [buf EXCEPT ![c] = <<>>]
    /\ polledAt' = [polledAt EXCEPT ![c] = -1]
    /\ pc' = [pc EXCEPT ![c] = "ready"]
    /\ UNCHANGED <<mediaVars, readVars, proc, driverVars, acceptor, ver, wver, last, firstPoll, endedAt>>

\* ------------------------------------------- the media cache population
\* Lines 240-276: the closure handles the next event of the timeline; for
\* an encrypted original message whose content serializes it spawns the
\* detached task of lines 259-261.
FilterEvent(ev) ==
    /\ proc = "up"
    /\ processed < MaxEvents
    /\ processed' = processed + 1
    /\ events' = IF FilterMap(ev).keep THEN Append(events, processed + 1) ELSE events
    /\ IF FilterMap(ev).spawn
       THEN /\ fpc' = [fpc EXCEPT ![processed + 1] = "spawned"]
            /\ fcontent' = [fcontent EXCEPT ![processed + 1] = ev.content]
       ELSE UNCHANGED <<fpc, fcontent>>
    /\ UNCHANGED <<seen, file, readVars, proc, driverVars, acceptor, connVars>>

\* Lines 44-56: the task runs to its first await or its end.
CacheCheck(k) ==
    /\ proc = "up"
    /\ fpc[k] = "spawned"
    /\ IF fcontent[k] \in {"nofile", "badfile"}
       THEN \* lines 46 and 50: return Ok(())
            /\ fpc' = [fpc EXCEPT ![k] = "returned"]
            /\ UNCHANGED seen
       ELSE IF fcontent[k] = "badurl"
       THEN \* line 52: file.url.parts().unwrap()
            /\ fpc' = [fpc EXCEPT ![k] = "panicked"]
            /\ UNCHANGED seen
       ELSE IF IsFile(file[fcontent[k]])
       THEN \* lines 54-56
            /\ fpc' = [fpc EXCEPT ![k] = "hit"]
            /\ seen' = [seen EXCEPT ![k] = file[fcontent[k]]]
       ELSE /\ fpc' = [fpc EXCEPT ![k] = "download"]
            /\ UNCHANGED seen
    /\ UNCHANGED <<processed, events, fcontent, file, readVars, proc, driverVars, acceptor, connVars>>

\* Lines 62-63: reqwest::get(url).await.expect(..), bytes().await.unwrap().
Download(k, ok) ==
    /\ proc = "up"
    /\ fpc[k] = "download"
    /\ fpc' = [fpc EXCEPT ![k] = IF ok THEN "decrypt" ELSE "panicked"]
    /\ UNCHANGED <<processed, events, fcontent, seen, file, readVars, proc, driverVars, acceptor, connVars>>

\* Lines 66-70: AttachmentDecryptor::new(..).expect(..), read_to_end(buf)?.
Decrypt(k, how) ==
    /\ proc = "up"
    /\ fpc[k] = "decrypt"
    /\ fpc' = [fpc EXCEPT ![k] = CASE how = "ok" -> "create"
                                   [] how = "new_err" -> "panicked"
                                   [] how = "read_err" -> "failed"]
    /\ UNCHANGED <<processed, events, fcontent, seen, file, readVars, proc, driverVars, acceptor, connVars>>

\* Line 71: File::create(path)? creates the file or truncates the one there.
Create(k, ok) ==
    /\ proc = "up"
    /\ fpc[k] = "create"
    /\ IF ok
       THEN /\ file' = [file EXCEPT ![fcontent[k]] = Truncated]
            /\ fpc' = [fpc EXCEPT ![k] = "write"]
       ELSE /\ fpc' = [fpc EXCEPT ![k] = "failed"]
            /\ UNCHANGED file
    /\ UNCHANGED <<processed, events, fcontent, seen, readVars, proc, driverVars, acceptor, connVars>>

\* Line 72: file.write_all(buf.as_slice())?: the next write call of the
\* loop in write_all, for the first chunk and then for the rest; a failed
\* call returns the error and leaves the file as it is.
Write(k, ok) ==
    /\ proc = "up"
    /\ fpc[k] \in {"write", "write_rest"}
    /\ IF ok
       THEN /\ file' = [file EXCEPT ![fcontent[k]] =
                            WriteChunk(@, IF fpc[k] = "write" THEN 1 ELSE 2)]
            /\ fpc' = [fpc EXCEPT ![k] = IF fpc[k] = "write" THEN "write_rest" ELSE "wrote"]
       ELSE /\ UNCHANGED file
            /\ fpc' = [fpc EXCEPT ![k] = "failed"]
    /\ UNCHANGED <<processed, events, fcontent, seen, readVars, proc, driverVars, acceptor, connVars>>

Next ==
    \/ \E output \in RoomLists, membersErr \in BOOLEAN : SyncCycle(output, membersErr)
    \/ ProcessExit
    \/ AcceptorRemoveFails
    \/ AcceptorBindFails
    \/ AcceptorBinds
    \/ AcceptErr
    \/ \E c \in Conns :
        \/ Accept(c)
        \/ ReadyPanics(c)
        \/ ReadEnds(c)
        \/ ReadWouldBlock(c)
        \/ Poll(c)
        \/ Borrow(c)
        \/ WriteOk(c)
        \/ WriteErr(c)

\* The fan-out: every task and every outcome of a read but bytes; clients
\* send no commands, and the sync stream does not end.
Spec == Init /\ [][Next]_vars

\* The fan-out under fair scheduling: the runtime runs every connection's
\* task, so its has_changed call, its borrow_and_update and the end of its
\* write_all (with whichever result) come about when they can.
Fairness ==
    \A c \in Conns :
        /\ WF_vars(Poll(c))
        /\ WF_vars(Borrow(c))
        /\ WF_vars(WriteOk(c) \/ WriteErr(c))

SpecFair == Init /\ [][Next]_vars /\ Fairness

\* The driver and the start-up of the service: the sync stream yields
\* responses or ends, the acceptor starts, connections come and go without
\* being served.
NextDriver ==
    \/ \E output \in RoomLists, membersErr \in BOOLEAN : SyncCycle(output, membersErr)
    \/ StreamEnds
    \/ ProcessExit
    \/ AcceptorRemoveFails
    \/ AcceptorBindFails
    \/ AcceptorBinds
    \/ \E c \in Conns :
        \/ Accept(c)
        \/ ReadEnds(c)

SpecDriver == Init /\ [][NextDriver]_vars

\* The media cache: the closure walks one timeline and the tasks it spawns
\* run, each to wherever it gets.
NextMedia ==
    \/ \E ev \in TimelineEvents : FilterEvent(ev)
    \/ \E k \in Timeline :
        \/ CacheCheck(k)
        \/ \E ok \in BOOLEAN : Download(k, ok)
        \/ \E how \in {"ok", "new_err", "read_err"} : Decrypt(k, how)
        \/ \E ok \in BOOLEAN : Create(k, ok)
        \/ \E ok \in BOOLEAN : Write(k, ok)

SpecMedia == Init /\ [][NextMedia]_vars

\* The command path: clients send bytes while the sync stream yields nothing.
NextRead ==
    \/ AcceptorBinds
    \/ \E c \in Conns :
        \/ Accept(c)
        \/ \E data \in Reads : ReadData(c, data)
        \/ \E i \in 1..MaxReads, outcome \in {"ok", "err"} : CommandEnds(c, i, outcome)
        \/ ReadWouldBlock(c)
        \/ ReadEnds(c)
        \/ ReadyPanics(c)
        \/ Poll(c)

SpecRead == Init /\ [][NextRead]_vars

\* ------------------------------------------------------------------ claims
Ended(c) == pc[c] \in {"closed", "panicked"}

\* C1: diff suppression. A sync cycle whose serialization equals that of the
\* cycle before it does not publish: the channel (value and version) is
\* left as it was, so no receiver sees a change on account of that cycle.
C1_DiffSuppression ==
    [][\A output \in RoomLists :
        (SyncCycle(output, FALSE) /\ result \in {"sent", "same"}
            /\ Serialize(output) = new_json)
        => (chan' = chan /\ result' = "same"
            /\ \A c \in Conns :
                HasChanged(ver[c], chan', FALSE) = HasChanged(ver[c], chan, FALSE))]_vars

\* A second, identical cycle has run after the one publish, and a connection
\* that wrote that publish has nothing new to write.
C1_Witness ==
    /\ result = "same" /\ chan.version = 1
    /\ \E c \in Conns :
        /\ pc[c] = "ready" /\ last[c] = Append(chan.value, NL)
        /\ HasChanged(ver[c], chan, SenderDropped) = "false"

\* C2: no two consecutive lines written to one client are byte-identical.
C2_NoIdenticalConsecutiveLines ==
    [][\A c \in Conns : (WriteOk(c) /\ last[c] # NoLine) => last'[c] # last[c]]_vars

\* C3: latest wins. A poll by a receiver that is behind the channel, by
\* however many publishes, reports changed, and the value then read is the
\* one the driver sent last, at the channel's current version.
C3_LatestWins ==
    [][\A c \in Conns :
        /\ (Poll(c) /\ ~SenderDropped /\ chan.version > ver[c]) => pc'[c] = "changed"
        /\ Borrow(c) => (buf'[c] = Append(json, NL) /\ ver'[c] = chan.version)]_vars

\* Three publishes went by without the connection observing any (it never
\* read a value, so no poll of its fell between them); its poll at the
\* third reported changed, and the channel holds the third value.
C3_Witness ==
    \E c \in Conns :
        /\ pc[c] = "changed" /\ wver[c] = -1 /\ polledAt[c] = 3
        /\ chan.version = 3 /\ chan.value = json

\* C4: per-subscriber independence. A receiver that is behind a publish
\* reports changed for it; once it has observed the value of a version it
\* never reports changed for that version again; and a poll or a read of
\* the value by one connection leaves every other connection's receiver,
\* position and output as they were.
C4_Independence ==
    [][\A c \in Conns :
        /\ (Poll(c) /\ ~SenderDropped /\ chan.version > 0 /\ wver[c] < chan.version)
            => pc'[c] = "changed"
        /\ (Poll(c) /\ pc'[c] = "changed") => wver[c] # chan.version
        /\ (Poll(c) \/ Borrow(c)) =>
            \A d \in Conns \ {c} :
                /\ ver'[d] = ver[d] /\ wver'[d] = wver[d]
                /\ pc'[d] = pc[d] /\ last'[d] = last[d]]_vars

\* Both connections observed and wrote the one publish, and neither has a
\* change left to report.
C4_Witness ==
    /\ chan.version = 1
    /\ \A c \in {1, 2} :
        /\ pc[c] = "ready" /\ wver[c] = 1
        /\ last[c] = Append(chan.value, NL)
        /\ HasChanged(ver[c], chan, SenderDropped) = "false"

\* C5 as stated: the first poll of a newly accepted connection reports
\* changed, whenever the connection is accepted.
C5_FirstPollChanged ==
    [][\A c \in Conns :
        (Poll(c) /\ pc[c] = "accepted" /\ ~SenderDropped) => pc'[c] = "changed"]_vars

\* C5 as amended: a new connection's receiver starts at the channel's
\* initial version, so its first poll reports changed exactly when the
\* driver has published at least once (and still holds the sender).
C5_FirstPollChangedIffPublished ==
    [][\A c \in Conns :
        /\ Accept(c) => ver'[c] = InitialVersion
        /\ (Poll(c) /\ pc[c] = "accepted") =>
            (pc'[c] = "changed" <=> (chan.version # InitialVersion /\ ~SenderDropped))]_vars

\* A connection accepted after two publishes, told changed by its first poll.
C5_Witness ==
    \E c \in Conns :
        pc[c] = "changed" /\ firstPoll[c] /\ chan.version = 2 /\ polledAt[c] = 2

\* C6: monotonic observation. Every value a connection takes to write has a
\* channel version above that of the value it took before, and it is the
\* channel's value of that version, also when a publish lands between
\* has_changed and borrow_and_update.
C6_MonotonicObservation ==
    [][\A c \in Conns :
        Borrow(c) =>
            /\ chan.version > wver[c]
            /\ wver'[c] = chan.version /\ ver'[c] = chan.version
            /\ buf'[c] = Append(chan.value, NL)]_vars

\* A publish landed between the poll (at version 1) and the read (version 2)
\* of a connection that had written before.
C6_Witness ==
    \E c \in Conns :
        /\ pc[c] = "writing" /\ polledAt[c] = 1 /\ wver[c] = 2
        /\ buf[c] = Append(chan.value, NL)

\* C7: a read that delivers a line that does not decode and then a line
\* that does: every line of the read that decodes is dispatched, once, and
\* the connection keeps running.
RECURSIVE DecodableLines(_)
DecodableLines(pieces) ==
    IF pieces = <<>> THEN <<>>
    ELSE (IF Decode(Head(pieces)).ok THEN <<Decode(Head(pieces)).cmd>> ELSE <<>>)
         \o DecodableLines(Tail(pieces))

C7_MalformedLineResilience ==
    [][\A c \in Conns : \A data \in Reads :
        ReadData(c, data) =>
            /\ spawned'[c] = spawned[c] \o DecodableLines(Split(data))
            /\ Live(c)']_vars

\* C8: connection isolation. Once some connection has ended (closed, failed
\* or panicked), every other connection still sees each publish it polls and
\* writes the channel's value, and the driver's publish still succeeds; the
\* driver never fails to publish while the acceptor is listening.
C8_ConnectionIsolation ==
    /\ [](driver = "panicked" => acceptor # "listening")
    /\ [][(\E c \in Conns : Ended(c)) =>
            /\ \A d \in Conns :
                /\ (Poll(d) /\ ~SenderDropped /\ chan.version # ver[d]) => pc'[d] = "changed"
                /\ Borrow(d) => buf'[d] = Append(chan.value, NL)
                /\ WriteOk(d) => last'[d] = buf[d]
            /\ \A output \in RoomLists :
                (SyncCycle(output, FALSE) /\ Serialize(output) # json)
                => (chan' = Send(chan, Serialize(output)) /\ driver' = "sync")]_vars

\* Connection 1 ended before anything was published; connection 2 wrote
\* the first publish.
C8_Witness ==
    /\ Ended(1) /\ endedAt[1] = 0
    /\ pc[2] = "ready" /\ wver[2] = 1 /\ last[2] = Append(chan.value, NL)

\* C9: a publish by the driver succeeds in every reachable state: the value
\* is replaced and the version advances, whatever became of the acceptor.
C9_PublishTotal ==
    [][\A output \in RoomLists :
        (SyncCycle(output, FALSE) /\ Serialize(output) # json)
        => (chan' = Send(chan, Serialize(output)) /\ driver' = "sync")]_vars

\* C10: an error fetching a room's members aborts the cycle only: the
\* driver is still running afterwards.
C10_MembersErrorAbortsCycleOnly ==
    result = "members_err" => driver = "sync"

\* C11: once the sync stream has ended (no item, or an error item) the
\* driver is in a terminal state: it has returned to its caller and is not
\* syncing again.
C11_StreamEndIsTerminal ==
    result = "stream_ended" => driver \in {"returned", "panicked"}

\* C12: when the removal of the existing socket path fails, the acceptor
\* never binds afterwards and the service stops: the driver processes no
\* sync response without an acceptor.
C12_RemoveFailureStopsService ==
    [][acceptor = "returned" =>
        /\ acceptor' = "returned"
        /\ \A output \in RoomLists, membersErr \in BOOLEAN :
            ~SyncCycle(output, membersErr)]_vars

\* C13: a failed write of a snapshot ends the connection's write loop: the
\* connection is at no point of its loop from which it polls or writes
\* again, and every other connection is left as it was.
C13_WriteErrorEndsLoop ==
    [][\A c \in Conns :
        WriteErr(c) =>
            /\ ~Live(c)'
            /\ \A d \in Conns \ {c} :
                /\ pc'[d] = pc[d] /\ ver'[d] = ver[d]
                /\ buf'[d] = buf[d] /\ last'[d] = last[d]]_vars

\* C14: reading and writing of one connection are independent: while its
\* snapshot write is pending, bytes the client has sent can be read and
\* their commands dispatched.
C14_ReadWhileWritePending ==
    \A c \in Conns :
        (proc = "up" /\ pc[c] = "writing" /\ reads < MaxReads)
        => \A data \in Reads : ENABLED ReadData(c, data)

\* C15: cache hit avoids network. When a call for a content id has
\* completed and written its file, a later call for the same id finds the
\* file and returns at once, with no download and no decrypt, and the file
\* is left as it is; having returned, it does nothing more.
C15_CacheHitAvoidsNetwork ==
    [][\A k \in Timeline :
        /\ (/\ CacheCheck(k)
            /\ \E j \in Timeline \ {k} :
                fpc[j] = "wrote" /\ fcontent[j] = fcontent[k])
           => (fpc'[k] = "hit" /\ file' = file)
        /\ fpc[k] = "hit" => (fpc'[k] = "hit" /\ seen'[k] = seen[k])]_vars

\* The first call wrote the file of id a; the second call, for the same
\* id, found the whole file and returned on the cache hit.
C15_Witness ==
    /\ fpc[1] = "wrote" /\ fcontent[1] = "a"
    /\ fpc[2] = "hit" /\ fcontent[2] = "a" /\ seen[2] = Whole
    /\ file["a"] = Whole

\* C16: the events kept for the snapshot are the timeline's original room
\* messages, whatever becomes of the media fetches: whether the content
\* serializes, and whatever step a fetch task takes or fails at.
C16_SnapshotIndependentOfMedia ==
    [][/\ \A ev \in TimelineEvents :
            FilterEvent(ev) =>
                events' = IF ev.kind = "message"
                          THEN Append(events, processed + 1) ELSE events
       /\ \A k \in Timeline :
            (\/ CacheCheck(k)
             \/ \E ok \in BOOLEAN : Download(k, ok) \/ Create(k, ok) \/ Write(k, ok)
             \/ \E how \in {"ok", "new_err", "read_err"} : Decrypt(k, how))
            => UNCHANGED <<events, processed, driverVars>>]_vars

\* C17: eventual delivery. A connection that stays open once the driver
\* has published its last value eventually has that value, followed by a
\* newline, as the line it wrote last.
C17_EventualDelivery ==
    \A c \in Conns :
        <>[](proc = "up" /\ Live(c) /\ chan.version > 0)
        => <>[](last[c] = Append(chan.value, NL))

\* C18: the outcome of a dispatched command has no effect on its
\* connection. The read loop never waits for a command: a task at the top
\* of its loop can read whatever its commands are doing. When a command
\* ends, with whichever outcome, nothing is written to a client, no
\* connection moves and no command is spawned again. A read of any
\* connection spawns the commands its bytes decode to, whatever became of
\* the commands before.
C18_CommandOutcomeHasNoEffect ==
    /\ [](\A c \in Conns :
            (proc = "up" /\ AtLoopTop(c) /\ reads < MaxReads)
            => \A data \in Reads : ENABLED ReadData(c, data))
    /\ [][\A c \in Conns :
            /\ \A i \in DOMAIN cmdState[c], outcome \in {"ok", "err"} :
                CommandEnds(c, i, outcome) =>
                    /\ UNCHANGED <<connVars, spawned>>
                    /\ Len(cmdState'[c]) = Len(cmdState[c])
                    /\ \A d \in Conns \ {c} : cmdState'[d] = cmdState[d]
            /\ \A data \in Reads :
                ReadData(c, data) =>
                    /\ spawned'[c] = spawned[c] \o SocketCommand(data).spawned
                    /\ Len(cmdState'[c]) = Len(spawned'[c])]_vars

\* The Send a connection dispatched has failed, the Subscribe of a later
\* line of the same connection was dispatched and has run, and the
\* connection is still being served.
C18_Witness ==
    \E c \in Conns :
        /\ spawned[c] = <<"Send", "Subscribe">>
        /\ cmdState[c] = <<"err", "ok">>
        /\ Live(c)

C20_NoCarryOver ==
    [][\A c \in Conns : \A data \in Reads :
        ReadData(c, data) =>
            /\ spawned'[c] = spawned[c] \o SocketCommand(data).spawned
            /\ (splitLine = [conn |-> c, half |-> 1] /\ data = <<"S2", NL>>)
                => spawned' = spawned
            /\ data = <<"S1", "S2", NL>> => spawned'[c] = Append(spawned[c], "Subscribe")]_vars

\* Connection 1 delivered S1 in one read and S2 with the newline in its
\* next, and no command has been spawned for it.
C20_Witness ==
    /\ splitLine = [conn |-> 1, half |-> 2]
    /\ spawned[1] = <<>> /\ reads = 2

\* C21: calls for one content id do not exclude each other: each call that
\* found the file absent downloads, decrypts, creates and writes on its
\* own. Once every such call for the id has completed its write, the file
\* holds the whole plaintext, as after a single call.
C21_ConcurrentCallsConverge ==
    \A id \in ContentIds :
        LET calls == {k \in Timeline : fcontent[k] = id /\ fpc[k] \notin {"spawned", "hit"}} IN
        (calls # {} /\ \A k \in calls : fpc[k] = "wrote") => file[id] = Whole

\* Two calls for id a both found the file absent, both went through the
\* download and the decryption and both wrote; the file is the plaintext.
C21_Witness ==
    /\ fpc[1] = "wrote" /\ fcontent[1] = "a"
    /\ fpc[2] = "wrote" /\ fcontent[2] = "a"
    /\ file["a"] = Whole

\* C22: every line written to a client is a snapshot the driver published,
\* followed by one newline. A value is taken to be written only from a
\* channel the driver has sent to, it is the driver's last serialization
\* of a room list, and the line written is that value and the newline; the
\* empty vector the channel was created with is never written.
C22_OnlyPublishedSnapshots ==
    [][\A c \in Conns :
        /\ Borrow(c) =>
            /\ chan.version > InitialVersion
            /\ chan.value = json
            /\ \E output \in RoomLists : json = Serialize(output)
            /\ buf'[c] = Append(json, NL)
        /\ WriteOk(c) =>
            /\ last'[c] = buf[c]
            /\ last'[c] # Append(Channel(<<>>).value, NL)
            /\ \E output \in RoomLists : last'[c] = Append(Serialize(output), NL)]_vars

\* Connection 2 polled before the first publish and has written nothing,
\* connection 1 has written the one published snapshot.
C22_Witness ==
    /\ chan.version = 1
    /\ pc[1] = "ready" /\ last[1] = Append(chan.value, NL)
    /\ pc[2] = "ready" /\ wver[2] = -1 /\ last[2] = NoLine

\* C23: after every completed sync cycle the channel's value is the
\* driver's baseline json and is the serialization of that cycle's room
\* list; and a cycle completed while the baseline is still the empty
\* initial vector publishes, whatever its room list.
C23_ChannelEqualsBaseline ==
    [][\A output \in RoomLists :
        (SyncCycle(output, FALSE) /\ driver' = "sync") =>
            /\ chan'.value = json'
            /\ json' = Serialize(output)
            /\ new_json' = Serialize(output)
            /\ json = Channel(<<>>).value => chan' = Send(chan, Serialize(output))]_vars

\* The first cycle built the empty room list and published it.
C23_Witness ==
    /\ driver = "sync" /\ result = "sent"
    /\ chan.version = 1 /\ chan.value = Serialize(<<>>)
    /\ json = chan.value /\ new_json = json

\* C24: a cache hit finds the whole plaintext: no call takes for a hit a
\* file that was created but not, or not fully, written; and a call that
\* failed, the only one for its content id, has left no file behind.
C24_HitFindsWholeFile ==
    \A k \in Timeline :
        /\ fpc[k] = "hit" => seen[k] = Whole
        /\ (/\ fpc[k] \in {"failed", "panicked"}
            /\ fcontent[k] \in ContentIds
            /\ \A j \in Timeline \ {k} : fcontent[j] # fcontent[k])
           => file[fcontent[k]] = Absent

====
